---- MODULE Spec2Model ----
(***************************************************************************)
(* Model of sim/src/pandemic.rs: the PandemicModel (infected and           *)
(* hospitalized sets, three SharedSpace ledgers, the ride map, the seeded  *)
(* random source) together with the Scheduler it pushes commands to.       *)
(*                                                                         *)
(* Time and Duration are counted in ticks; one simulated hour is           *)
(* TicksPerHour ticks.  An Option is a sequence: <<>> is None and <<v>>    *)
(* is Some(v).  A BTreeMap is a function whose DOMAIN is its key set.      *)
(* The random source is the number of words drawn from the seeded stream;  *)
(* the seed is not known, so every draw may produce any value of its type. *)
(***************************************************************************)
EXTENDS Integers, Sequences, FiniteSets, TLC

\* ---- bounds of the model ----
NumPersons == 3
NumBuildings == 1
NumBusStops == 1
NumCars == 1
NumSpaces == 2
MaxTime == 2
MaxCalls == 4
TicksPerHour == 1

Persons == 1..NumPersons
Buildings == 1..NumBuildings
BusStops == 1..NumBusStops
Cars == 1..NumCars
\* the keys of a SharedSpace driven on its own, as tests::test_overlap drives one
Spaces == 1..NumSpaces

\* populations handed to initialize: the first n persons created, n = 0..NumPersons
Populations == {[i \in 1..n |-> i] : n \in 0..NumPersons}

\* ---- geom::Time / geom::Duration ----
START_OF_DAY == 0
Hours(n) == n * TicksPerHour
Max(a, b) == IF a >= b THEN a ELSE b

\* ---- Option ----
None == <<>>
Some(v) == <<v>>

\* ---- enum Cmd ----
BecomeHospitalized(p) == [cmd |-> "BecomeHospitalized", person |-> p]

VARIABLES
    infected,       \* BTreeSet<PersonID>
    hospitalized,   \* BTreeSet<PersonID>
    bldgs,          \* SharedSpace<BuildingID>.occupants
    bus_stops,      \* SharedSpace<BusStopID>.occupants
    buses,          \* SharedSpace<CarID>.occupants
    person_to_bus,  \* BTreeMap<PersonID, CarID>
    rng,            \* number of draws taken from the XorShiftRng
    initialized,    \* bool
    scheduler,      \* commands pushed and not yet delivered: Seq of <<Time, Cmd>>
    inflight,       \* Option<(Time, Cmd)>: the command handed to handle_cmd next
    test_space,     \* the SharedSpace `space` of tests::test_overlap
    now,            \* the time of the latest call
    ncalls,         \* number of calls made so far
    limit,          \* number of calls the run is followed for
    panic,          \* "none", or the assertion/unwrap that aborted the run
    ev,             \* the latest call and its arguments
    others          \* what the latest person_leaves_space returned (None before any)

vars == <<infected, hospitalized, bldgs, bus_stops, buses, person_to_bus, rng,
          initialized, scheduler, inflight, test_space, now, ncalls, limit, panic, ev,
          others>>

\* ---- SharedSpace ----
EmptyMap == [k \in {} |-> <<>>]

\* occupants.entry(space).or_insert_with(Vec::new)
Entry(occupants, space) ==
    IF space \in DOMAIN occupants THEN occupants
    ELSE [k \in DOMAIN occupants \cup {space} |->
             IF k = space THEN <<>> ELSE occupants[k]]

PersonEntersSpace(occupants, t, person, space) ==
    [Entry(occupants, space) EXCEPT ![space] = Append(@, <<person, t>>)]

\* the Option<Time> left in inside_since by the retain closure: the entry time
\* of the last record of person
InsideSince(vec, person) ==
    LET mine == SelectSeq(vec, LAMBDA e : e[1] = person)
    IN  IF mine = <<>> THEN None ELSE Some(mine[Len(mine)][2])

\* a removal that stops at the first record of person
Retained_FirstOnly(vec, person) ==
    LET mine == {i \in 1..Len(vec) : vec[i][1] = person}
    IN  IF mine = {} THEN vec
        ELSE LET f == CHOOSE i \in mine : \A j \in mine : i <= j
             IN  [i \in 1..(Len(vec) - 1) |-> IF i < f THEN vec[i] ELSE vec[i + 1]]

\* a removal by Vec::swap_remove: the last record takes the removed one's place
Retained_SwapRemove(vec, person) ==
    LET mine == {i \in 1..Len(vec) : vec[i][1] = person}
    IN  IF mine = {} THEN vec
        ELSE LET f == CHOOSE i \in mine : \A j \in mine : i <= j
             IN  [i \in 1..(Len(vec) - 1) |-> IF i = f THEN vec[Len(vec)] ELSE vec[i]]

\* a retain closure with its test the wrong way round
Retained_Inverted(vec, person) == SelectSeq(vec, LAMBDA e : e[1] = person)

Retained(vec, person) == SelectSeq(vec, LAMBDA e : e[1] # person)

\* person_leaves_space measuring every overlap from the leaving person's entry
PersonLeavesSpace_LeaverEntry(occupants, t, person, space) ==
    LET occ == Entry(occupants, space)
        inside_since == InsideSince(occ[space], person)
        kept == Retained(occ[space], person)
        after == [occ EXCEPT ![space] = kept]
    IN  IF inside_since = None
        THEN [occupants |-> after, ret |-> None]
        ELSE [occupants |-> after,
              ret |-> Some([i \in 1..Len(kept) |-> <<kept[i][1], t - inside_since[1]>>])]

\* person_leaves_space with the subtraction the wrong way round
PersonLeavesSpace_Reversed(occupants, t, person, space) ==
    LET occ == Entry(occupants, space)
        inside_since == InsideSince(occ[space], person)
        kept == Retained(occ[space], person)
        after == [occ EXCEPT ![space] = kept]
    IN  IF inside_since = None
        THEN [occupants |-> after, ret |-> None]
        ELSE [occupants |-> after,
              ret |-> Some([i \in 1..Len(kept) |->
                              <<kept[i][1], Max(kept[i][2], inside_since[1]) - t>>])]

\* person_leaves_space measuring every overlap from the occupant's own entry
PersonLeavesSpace_OwnEntry(occupants, t, person, space) ==
    LET occ == Entry(occupants, space)
        inside_since == InsideSince(occ[space], person)
        kept == Retained(occ[space], person)
        after == [occ EXCEPT ![space] = kept]
    IN  IF inside_since = None
        THEN [occupants |-> after, ret |-> None]
        ELSE [occupants |-> after,
              ret |-> Some([i \in 1..Len(kept) |-> <<kept[i][1], t - kept[i][2]>>])]

\* returns the ledger after the call and the returned Option<Vec<(PersonID, Duration)>>
PersonLeavesSpace(occupants, t, person, space) ==
    LET occ == Entry(occupants, space)
        inside_since == InsideSince(occ[space], person)
        kept == Retained(occ[space], person)
        after == [occ EXCEPT ![space] = kept]
    IN  IF inside_since = None
        THEN [occupants |-> after, ret |-> None]
        ELSE [occupants |-> after,
              ret |-> Some([i \in 1..Len(kept) |->
                              <<kept[i][1], t - Max(kept[i][2], inside_since[1])>>])]

\* ---- PandemicModel: the part of self that transmission and become_infected touch ----
\* draws: the values the rng has produced for the call under way, in order
Self == [infected |-> infected, rng |-> rng, scheduler |-> scheduler, panic |-> panic,
         draws |-> <<>>]

\* rng.gen_bool(p): one draw, either outcome
\* a coin tossed from a source other than self.rng
GenBool_Unseeded(st) == {[st |-> st, b |-> b] : b \in BOOLEAN}

GenBool(st) ==
    {[st |-> [st EXCEPT !.rng = @ + 1, !.draws = Append(@, <<"bool", b>>)], b |-> b] :
       b \in BOOLEAN}

\* rand_duration drawing from [low, high], the upper end included
RandDuration_Inclusive(st, low, high) ==
    IF ~(high > low)
    THEN {[st |-> [st EXCEPT !.panic = "rand_duration: assert"], d |-> 0]}
    ELSE {[st |-> [st EXCEPT !.rng = @ + 1, !.draws = Append(@, <<"range", d>>)], d |-> d] :
            d \in low..high}

\* rand_duration(low, high): assert!(high > low), then one draw in [low, high)
RandDuration(st, low, high) ==
    IF ~(high > low)
    THEN {[st |-> [st EXCEPT !.panic = "rand_duration: assert"], d |-> 0]}
    ELSE {[st |-> [st EXCEPT !.rng = @ + 1, !.draws = Append(@, <<"range", d>>)], d |-> d] :
            d \in low..(high - 1)}

\* become_infected recording the infection only when no hospitalization is scheduled
BecomeInfected_InsertLate(st, t, person) ==
    UNION {
      IF g.b
      THEN {IF r.st.panic # "none" THEN r.st
            ELSE [r.st EXCEPT !.scheduler =
                     Append(@, <<t + r.d, BecomeHospitalized(person)>>)] :
              r \in RandDuration(g.st, Hours(1), Hours(3))}
      ELSE {[g.st EXCEPT !.infected = @ \cup {person}]} : g \in GenBool(st)}

\* become_infected overwriting the infected set instead of inserting into it
BecomeInfected_Replace(st, t, person) ==
    LET s1 == [st EXCEPT !.infected = {person}]
    IN  UNION {
          IF g.b
          THEN {IF r.st.panic # "none" THEN r.st
                ELSE [r.st EXCEPT !.scheduler =
                         Append(@, <<t + r.d, BecomeHospitalized(person)>>)] :
                  r \in RandDuration(g.st, Hours(1), Hours(3))}
          ELSE {g.st} : g \in GenBool(s1)}

BecomeInfected(st, t, person) ==
    LET s1 == [st EXCEPT !.infected = @ \cup {person}]
    IN  UNION {
          IF g.b
          THEN {IF r.st.panic # "none" THEN r.st
                ELSE [r.st EXCEPT !.scheduler =
                         Append(@, <<t + r.d, BecomeHospitalized(person)>>)] :
                  r \in RandDuration(g.st, Hours(1), Hours(3))}
          ELSE {g.st} : g \in GenBool(s1)}

\* the loop body of transmission with the threshold not strict
TransmissionPair_AtLeast(st, t, person, pair) ==
    LET other == pair[1]
        overlap == pair[2]
    IN  IF (person \in st.infected) # (other \in st.infected)
        THEN IF overlap >= Hours(1)
             THEN UNION {
                    IF g.b
                    THEN IF person \in g.st.infected
                         THEN BecomeInfected(g.st, t, other)
                         ELSE BecomeInfected(g.st, t, person)
                    ELSE {g.st} : g \in GenBool(st)}
             ELSE {st}
        ELSE {st}

\* the loop body of transmission infecting the member that is infected already
TransmissionPair_WrongTarget(st, t, person, pair) ==
    LET other == pair[1]
        overlap == pair[2]
    IN  IF (person \in st.infected) # (other \in st.infected)
        THEN IF overlap > Hours(1)
             THEN UNION {
                    IF g.b
                    THEN IF person \in g.st.infected
                         THEN BecomeInfected(g.st, t, person)
                         ELSE BecomeInfected(g.st, t, other)
                    ELSE {g.st} : g \in GenBool(st)}
             ELSE {st}
        ELSE {st}

\* the loop body of transmission calling become_infected for both members
TransmissionPair_Both(st, t, person, pair) ==
    LET other == pair[1]
        overlap == pair[2]
    IN  IF (person \in st.infected) # (other \in st.infected)
        THEN IF overlap > Hours(1)
             THEN UNION {
                    IF g.b
                    THEN UNION {IF s1.panic # "none" THEN {s1}
                                ELSE BecomeInfected(s1, t, person) :
                                  s1 \in BecomeInfected(g.st, t, other)}
                    ELSE {g.st} : g \in GenBool(st)}
             ELSE {st}
        ELSE {st}

\* one iteration of the loop of transmission
TransmissionPair(st, t, person, pair) ==
    LET other == pair[1]
        overlap == pair[2]
    IN  IF (person \in st.infected) # (other \in st.infected)
        THEN IF overlap > Hours(1)
             THEN UNION {
                    IF g.b
                    THEN IF person \in g.st.infected
                         THEN BecomeInfected(g.st, t, other)
                         ELSE BecomeInfected(g.st, t, person)
                    ELSE {g.st} : g \in GenBool(st)}
             ELSE {st}
        ELSE {st}

\* a loop that judges every pair by what person was when the loop began
RECURSIVE TransmissionFrom(_, _, _, _, _)
TransmissionFrom(st, t, person, other_occupants, was_infected) ==
    IF other_occupants = <<>> \/ st.panic # "none" THEN {st}
    ELSE LET other == Head(other_occupants)[1]
             overlap == Head(other_occupants)[2]
             after == IF was_infected # (other \in st.infected) /\ overlap > Hours(1)
                      THEN UNION {
                             IF g.b
                             THEN BecomeInfected(g.st, t,
                                                 IF was_infected THEN other ELSE person)
                             ELSE {g.st} : g \in GenBool(st)}
                      ELSE {st}
         IN  UNION {TransmissionFrom(s2, t, person, Tail(other_occupants), was_infected) :
                      s2 \in after}

Transmission_Snapshot(st, t, person, other_occupants) ==
    TransmissionFrom(st, t, person, other_occupants, person \in st.infected)

RECURSIVE Transmission(_, _, _, _)
Transmission(st, t, person, other_occupants) ==
    IF other_occupants = <<>> \/ st.panic # "none" THEN {st}
    ELSE UNION {Transmission(s2, t, person, Tail(other_occupants)) :
                  s2 \in TransmissionPair(st, t, person, Head(other_occupants))}

\* the loop of initialize over the population
RECURSIVE Seed(_, _)
Seed(st, population) ==
    IF population = <<>> \/ st.panic # "none" THEN {st}
    ELSE UNION {
           IF g.b
           THEN UNION {Seed(s2, Tail(population)) :
                         s2 \in BecomeInfected(g.st, START_OF_DAY, Head(population))}
           ELSE Seed(g.st, Tail(population)) : g \in GenBool(st)}

\* ---- the state after PandemicModel::new and with an empty Scheduler ----
\* car: for a Walking event, the vehicle person_to_bus.remove gave (0 for None)
\* had: for a person_leaves_space call made on a SharedSpace directly, the number
\* of records the person had in the space
NoCall == [call |-> "new", kind |-> "", person |-> 0, space |-> 0, car |-> 0,
           had |-> 0]

Fresh ==
    /\ infected = {}
    /\ hospitalized = {}
    /\ bldgs = EmptyMap
    /\ bus_stops = EmptyMap
    /\ buses = EmptyMap
    /\ person_to_bus = EmptyMap
    /\ rng = 0
    /\ initialized = FALSE
    /\ scheduler = <<>>
    /\ inflight = None
    /\ test_space = EmptyMap
    /\ now = START_OF_DAY
    /\ ncalls = 0
    /\ panic = "none"
    /\ ev = NoCall
    /\ others = None

Init == Fresh /\ limit = MaxCalls

\* a call can be made: the run has not aborted, and the model's bounds
Callable(t) ==
    /\ panic = "none"
    /\ inflight = None
    /\ ncalls < limit
    /\ t \in now..MaxTime
    /\ UNCHANGED limit

\* writes back what transmission and become_infected did to self and the scheduler
Store(st) ==
    /\ infected' = st.infected
    /\ rng' = st.rng
    /\ scheduler' = st.scheduler
    /\ panic' = st.panic

\* initialize without its assert!(!self.initialized)
Initialize_Reseed(population) ==
    /\ Callable(now)
    /\ ncalls' = ncalls + 1
    /\ ev' = [NoCall EXCEPT !.call = "initialize"]
    /\ UNCHANGED <<inflight, test_space>>
    /\ initialized' = TRUE
    /\ \E st \in Seed(Self, population) : Store(st)
    /\ UNCHANGED <<hospitalized, bldgs, bus_stops, buses, person_to_bus, now, others>>

Initialize(population) ==
    /\ Callable(now)
    /\ ncalls' = ncalls + 1
    /\ ev' = [NoCall EXCEPT !.call = "initialize"]
    /\ UNCHANGED <<inflight, test_space>>
    /\ IF initialized
       THEN /\ panic' = "initialize: assert"
            /\ UNCHANGED <<infected, hospitalized, bldgs, bus_stops, buses,
                           person_to_bus, rng, initialized, scheduler, now, others>>
       ELSE /\ initialized' = TRUE
            /\ \E st \in Seed(Self, population) : Store(st)
            /\ UNCHANGED <<hospitalized, bldgs, bus_stops, buses, person_to_bus,
                           now, others>>

\* assert!(self.initialized) at the head of handle_event and handle_cmd
AssertFails(call, kind, person, key, car) ==
    /\ ~initialized
    /\ panic' = call \o ": assert"
    /\ UNCHANGED test_space
    /\ ev' = [call |-> call, kind |-> kind, person |-> person, space |-> key,
              car |-> car, had |-> 0]
    /\ UNCHANGED <<infected, hospitalized, bldgs, bus_stops, buses, person_to_bus,
                   rng, initialized, scheduler, others>>

Called(call, kind, person, key, car) ==
    /\ initialized
    /\ UNCHANGED test_space
    /\ ev' = [call |-> call, kind |-> kind, person |-> person, space |-> key,
              car |-> car, had |-> 0]

\* handle_event(now, Event::PersonEntersBuilding(person, bldg))
PersonEntersBuilding(t, person, bldg) ==
    /\ Callable(t)
    /\ now' = t
    /\ ncalls' = ncalls + 1
    /\ UNCHANGED inflight
    /\ \/ AssertFails("handle_event", "PersonEntersBuilding", person, bldg, 0)
       \/ /\ Called("handle_event", "PersonEntersBuilding", person, bldg, 0)
          /\ bldgs' = PersonEntersSpace(bldgs, t, person, bldg)
          /\ UNCHANGED <<infected, hospitalized, bus_stops, buses, person_to_bus,
                         rng, initialized, scheduler, panic, others>>

\* handle_event(now, Event::PersonLeavesBuilding(person, bldg))
PersonLeavesBuilding(t, person, bldg) ==
    /\ Callable(t)
    /\ now' = t
    /\ ncalls' = ncalls + 1
    /\ UNCHANGED inflight
    /\ \/ AssertFails("handle_event", "PersonLeavesBuilding", person, bldg, 0)
       \/ /\ Called("handle_event", "PersonLeavesBuilding", person, bldg, 0)
          /\ LET r == PersonLeavesSpace(bldgs, t, person, bldg)
             IN  /\ bldgs' = r.occupants
                 /\ others' = r.ret
                 /\ IF r.ret # None
                    THEN \E st \in Transmission(Self, t, person, r.ret[1]) : Store(st)
                    ELSE UNCHANGED <<infected, rng, scheduler, panic>>
          /\ UNCHANGED <<hospitalized, bus_stops, buses, person_to_bus, initialized>>

\* handle_event(now, Event::TripPhaseStarting(_, person, _, _, WaitingForBus(_, stop)))
WaitingForBus(t, person, stop) ==
    /\ Callable(t)
    /\ now' = t
    /\ ncalls' = ncalls + 1
    /\ UNCHANGED inflight
    /\ \/ AssertFails("handle_event", "WaitingForBus", person, stop, 0)
       \/ /\ Called("handle_event", "WaitingForBus", person, stop, 0)
          /\ bus_stops' = PersonEntersSpace(bus_stops, t, person, stop)
          /\ UNCHANGED <<infected, hospitalized, bldgs, buses, person_to_bus,
                         rng, initialized, scheduler, panic, others>>

\* an insert that moves everybody in the map to the vehicle
MapInsert_AllRiders(map, k, v) == [x \in DOMAIN map \cup {k} |-> v]

\* person_to_bus.insert(person, bus)
MapInsert(map, k, v) == [x \in DOMAIN map \cup {k} |-> IF x = k THEN v ELSE map[x]]

\* a remove that leaves the entry in the map
MapRemove_Noop(map, k) == map

\* person_to_bus.remove(&person), the map that is left
MapRemove(map, k) == [x \in DOMAIN map \ {k} |-> map[x]]

\* the RidingBus arm without its call of transmission
RidingBus_NoTransmission(t, person, stop, bus) ==
    /\ Callable(t)
    /\ now' = t
    /\ ncalls' = ncalls + 1
    /\ UNCHANGED inflight
    /\ \/ AssertFails("handle_event", "RidingBus", person, stop, bus)
       \/ /\ Called("handle_event", "RidingBus", person, stop, bus)
          /\ LET r == PersonLeavesSpace(bus_stops, t, person, stop)
             IN  /\ bus_stops' = r.occupants
                 /\ others' = r.ret
                 /\ UNCHANGED <<infected, rng, scheduler>>
                 /\ IF r.ret = None
                    THEN /\ panic' = "RidingBus: unwrap"
                         /\ UNCHANGED <<buses, person_to_bus>>
                    ELSE /\ UNCHANGED panic
                         /\ buses' = PersonEntersSpace(buses, t, person, bus)
                         /\ person_to_bus' = MapInsert(person_to_bus, person, bus)
          /\ UNCHANGED <<hospitalized, bldgs, initialized>>

\* handle_event(now, Event::TripPhaseStarting(_, person, _, _, RidingBus(_, stop, bus)))
RidingBus(t, person, stop, bus) ==
    /\ Callable(t)
    /\ now' = t
    /\ ncalls' = ncalls + 1
    /\ UNCHANGED inflight
    /\ \/ AssertFails("handle_event", "RidingBus", person, stop, bus)
       \/ /\ Called("handle_event", "RidingBus", person, stop, bus)
          /\ LET r == PersonLeavesSpace(bus_stops, t, person, stop)
             IN  /\ bus_stops' = r.occupants
                 /\ others' = r.ret
                 /\ IF r.ret = None
                    THEN \* .unwrap() of None
                         /\ panic' = "RidingBus: unwrap"
                         /\ UNCHANGED <<infected, rng, scheduler, buses, person_to_bus>>
                    ELSE \E st \in Transmission(Self, t, person, r.ret[1]) :
                            /\ Store(st)
                            /\ IF st.panic # "none"
                               THEN UNCHANGED <<buses, person_to_bus>>
                               ELSE /\ buses' = PersonEntersSpace(buses, t, person, bus)
                                    /\ person_to_bus' = MapInsert(person_to_bus, person, bus)
          /\ UNCHANGED <<hospitalized, bldgs, initialized>>

\* handle_event(now, Event::TripPhaseStarting(_, person, _, _, Walking))
Walking(t, person) ==
    /\ Callable(t)
    /\ now' = t
    /\ ncalls' = ncalls + 1
    /\ UNCHANGED inflight
    /\ \/ AssertFails("handle_event", "Walking", person, 0, 0)
       \/ /\ Called("handle_event", "Walking", person, 0,
                    IF person \in DOMAIN person_to_bus THEN person_to_bus[person] ELSE 0)
          /\ IF person \in DOMAIN person_to_bus
             THEN LET car == person_to_bus[person]
                      r == PersonLeavesSpace(buses, t, person, car)
                  IN  /\ person_to_bus' = MapRemove(person_to_bus, person)
                      /\ buses' = r.occupants
                      /\ others' = r.ret
                      /\ IF r.ret = None
                         THEN \* .unwrap() of None
                              /\ panic' = "Walking: unwrap"
                              /\ UNCHANGED <<infected, rng, scheduler>>
                         ELSE \E st \in Transmission(Self, t, person, r.ret[1]) :
                                 Store(st)
             ELSE UNCHANGED <<infected, rng, scheduler, panic, buses, person_to_bus,
                              others>>
          /\ UNCHANGED <<hospitalized, bldgs, bus_stops, initialized>>

\* a catch-all arm that takes the start of any other trip phase for the end of a ride
OtherTripPhase_EndsRide(t, person) ==
    /\ Callable(t)
    /\ now' = t
    /\ ncalls' = ncalls + 1
    /\ UNCHANGED inflight
    /\ \/ AssertFails("handle_event", "OtherTripPhase", person, 0, 0)
       \/ /\ Called("handle_event", "OtherTripPhase", person, 0, 0)
          /\ person_to_bus' = MapRemove(person_to_bus, person)
          /\ UNCHANGED <<infected, hospitalized, bldgs, bus_stops, buses,
                         rng, initialized, scheduler, panic, others>>

\* handle_event(now, Event::TripPhaseStarting(_, person, _, _, tpt)) for any other tpt
OtherTripPhase(t, person) ==
    /\ Callable(t)
    /\ now' = t
    /\ ncalls' = ncalls + 1
    /\ UNCHANGED inflight
    /\ \/ AssertFails("handle_event", "OtherTripPhase", person, 0, 0)
       \/ /\ Called("handle_event", "OtherTripPhase", person, 0, 0)
          /\ UNCHANGED <<infected, hospitalized, bldgs, bus_stops, buses,
                         person_to_bus, rng, initialized, scheduler, panic, others>>

\* handle_event(now, ev) for any other Event
OtherEvent(t) ==
    /\ Callable(t)
    /\ now' = t
    /\ ncalls' = ncalls + 1
    /\ UNCHANGED inflight
    /\ \/ AssertFails("handle_event", "OtherEvent", 0, 0, 0)
       \/ /\ Called("handle_event", "OtherEvent", 0, 0, 0)
          /\ UNCHANGED <<infected, hospitalized, bldgs, bus_stops, buses,
                         person_to_bus, rng, initialized, scheduler, panic, others>>

\* ---- Scheduler ----
\* the pushed commands that are next in time order
Earliest(queue) ==
    {i \in 1..Len(queue) : \A j \in 1..Len(queue) : queue[i][1] <= queue[j][1]}

RemoveAt(queue, i) == SubSeq(queue, 1, i - 1) \o SubSeq(queue, i + 1, Len(queue))

\* the Scheduler takes the next pushed command, at or after its time, to hand
\* it to handle_cmd
GetNext(t, i) ==
    /\ Callable(t)
    /\ i \in Earliest(scheduler)
    /\ t >= scheduler[i][1]
    /\ inflight' = Some(<<t, scheduler[i][2]>>)
    /\ scheduler' = RemoveAt(scheduler, i)
    /\ now' = t
    /\ UNCHANGED <<infected, hospitalized, bldgs, bus_stops, buses, person_to_bus,
                   rng, initialized, test_space, ncalls, panic, ev, others>>

\* a caller hands handle_cmd a command that was never pushed
Unpushed(t, person) ==
    /\ Callable(t)
    /\ inflight' = Some(<<t, BecomeHospitalized(person)>>)
    /\ now' = t
    /\ UNCHANGED <<infected, hospitalized, bldgs, bus_stops, buses, person_to_bus,
                   rng, initialized, scheduler, test_space, ncalls, panic, ev, others>>

\* handle_cmd hospitalizing only a person who is infected
HandleCmd_Revalidate ==
    /\ panic = "none"
    /\ inflight # None
    /\ inflight' = None
    /\ UNCHANGED limit
    /\ ncalls' = ncalls + 1
    /\ LET cmd == inflight[1][2]
       IN  \/ /\ AssertFails("handle_cmd", cmd.cmd, cmd.person, 0, 0)
              /\ UNCHANGED now
           \/ /\ Called("handle_cmd", cmd.cmd, cmd.person, 0, 0)
              /\ hospitalized' = IF cmd.person \in infected
                                 THEN hospitalized \cup {cmd.person}
                                 ELSE hospitalized
              /\ UNCHANGED <<infected, bldgs, bus_stops, buses, person_to_bus, rng,
                             initialized, scheduler, now, panic, others>>

\* handle_cmd discarding the command
HandleCmd_Drop ==
    /\ panic = "none"
    /\ inflight # None
    /\ inflight' = None
    /\ UNCHANGED limit
    /\ ncalls' = ncalls + 1
    /\ LET cmd == inflight[1][2]
       IN  \/ /\ AssertFails("handle_cmd", cmd.cmd, cmd.person, 0, 0)
              /\ UNCHANGED now
           \/ /\ Called("handle_cmd", cmd.cmd, cmd.person, 0, 0)
              /\ UNCHANGED <<infected, hospitalized, bldgs, bus_stops, buses,
                             person_to_bus, rng, initialized, scheduler, now, panic,
                             others>>

\* handle_cmd(now, cmd) for the command in flight
HandleCmd ==
    /\ panic = "none"
    /\ inflight # None
    /\ inflight' = None
    /\ UNCHANGED limit
    /\ ncalls' = ncalls + 1
    /\ LET cmd == inflight[1][2]
       IN  \/ /\ AssertFails("handle_cmd", cmd.cmd, cmd.person, 0, 0)
              /\ UNCHANGED now
           \/ /\ Called("handle_cmd", cmd.cmd, cmd.person, 0, 0)
              /\ hospitalized' = hospitalized \cup {cmd.person}
              /\ UNCHANGED <<infected, bldgs, bus_stops, buses, person_to_bus, rng,
                             initialized, scheduler, now, panic, others>>

Next ==
    \/ \E population \in Populations : Initialize(population)
    \/ \E t \in 0..MaxTime, p \in Persons, b \in Buildings : PersonEntersBuilding(t, p, b)
    \/ \E t \in 0..MaxTime, p \in Persons, b \in Buildings : PersonLeavesBuilding(t, p, b)
    \/ \E t \in 0..MaxTime, p \in Persons, s \in BusStops : WaitingForBus(t, p, s)
    \/ \E t \in 0..MaxTime, p \in Persons, s \in BusStops, c \in Cars : RidingBus(t, p, s, c)
    \/ \E t \in 0..MaxTime, p \in Persons : Walking(t, p)
    \/ \E t \in 0..MaxTime, p \in Persons : OtherTripPhase(t, p)
    \/ \E t \in 0..MaxTime : OtherEvent(t)
    \/ \E t \in 0..MaxTime, i \in 1..Len(scheduler) : GetNext(t, i)
    \/ HandleCmd

Spec == Init /\ [][Next]_vars

\* the same, with handle_cmd open to any caller
NextOpen ==
    \/ Next
    \/ \E t \in 0..MaxTime, p \in Persons : Unpushed(t, p)

SpecOpen == Init /\ [][NextOpen]_vars

\* ---- a SharedSpace on its own, driven as tests::test_overlap drives it ----
\* space.person_enters_space(now, person, key)
EntersSpace(t, person, key) ==
    /\ Callable(t)
    /\ now' = t
    /\ ncalls' = ncalls + 1
    /\ ev' = [NoCall EXCEPT !.call = "person_enters_space", !.person = person,
                            !.space = key]
    /\ test_space' = PersonEntersSpace(test_space, t, person, key)
    /\ UNCHANGED <<infected, hospitalized, bldgs, bus_stops, buses, person_to_bus,
                   rng, initialized, scheduler, inflight, panic, others>>

\* space.person_leaves_space(now, person, key)
LeavesSpace(t, person, key) ==
    /\ Callable(t)
    /\ now' = t
    /\ ncalls' = ncalls + 1
    /\ ev' = [NoCall EXCEPT !.call = "person_leaves_space", !.person = person,
                            !.space = key,
                            !.had = Len(SelectSeq(IF key \in DOMAIN test_space
                                                  THEN test_space[key] ELSE <<>>,
                                                  LAMBDA e : e[1] = person))]
    /\ LET r == PersonLeavesSpace(test_space, t, person, key)
       IN  /\ test_space' = r.occupants
           /\ others' = r.ret
    /\ UNCHANGED <<infected, hospitalized, bldgs, bus_stops, buses, person_to_bus,
                   rng, initialized, scheduler, inflight, panic>>

NextLedger ==
    \/ \E t \in 0..MaxTime, p \in Persons, k \in Spaces : EntersSpace(t, p, k)
    \/ \E t \in 0..MaxTime, p \in Persons, k \in Spaces : LeavesSpace(t, p, k)

SpecLedger == Init /\ [][NextLedger]_vars

\* ---- one more call than MaxCalls, for the events of buildings alone ----
InitBatch == Fresh /\ limit = MaxCalls + 1

NextBatch ==
    \/ \E population \in Populations : Initialize(population)
    \/ \E t \in 0..MaxTime, p \in Persons, b \in Buildings : PersonEntersBuilding(t, p, b)
    \/ \E t \in 0..MaxTime, p \in Persons, b \in Buildings : PersonLeavesBuilding(t, p, b)

SpecBatch == InitBatch /\ [][NextBatch]_vars

\* ---- two more calls than MaxCalls, one more vehicle and one person fewer on
\* the move, for the bus events alone ----
RideCars == 1..(NumCars + 1)
Riders == 1..(NumPersons - 1)

InitRide == Fresh /\ limit = MaxCalls + 2

NextRide ==
    \/ \E population \in Populations : Initialize(population)
    \/ \E t \in 0..MaxTime, p \in Riders, s \in BusStops : WaitingForBus(t, p, s)
    \/ \E t \in 0..MaxTime, p \in Riders, s \in BusStops, c \in RideCars :
          RidingBus(t, p, s, c)
    \/ \E t \in 0..MaxTime, p \in Riders : Walking(t, p)

SpecRide == InitRide /\ [][NextRide]_vars

\* ---- a simulation that keeps running: MaxCalls calls of initialize and of
\* building events, and the Scheduler delivering for as long as it has commands ----
InitLive == Fresh /\ limit = MaxCalls + NumPersons

Deliver == \E t \in 0..MaxTime, i \in 1..Len(scheduler) : GetNext(t, i)

NextLive ==
    \/ ncalls < MaxCalls /\ \E population \in Populations : Initialize(population)
    \/ /\ ncalls < MaxCalls
       /\ \E t \in 0..MaxTime, p \in Persons, b \in Buildings : PersonEntersBuilding(t, p, b)
    \/ /\ ncalls < MaxCalls
       /\ \E t \in 0..MaxTime, p \in Persons, b \in Buildings : PersonLeavesBuilding(t, p, b)
    \/ Deliver
    \/ HandleCmd

\* the Scheduler does not sit on a command that is due, and a command it has
\* taken is handed to handle_cmd
SpecLive == InitLive /\ [][NextLive]_vars /\ WF_vars(Deliver) /\ WF_vars(HandleCmd)

\* ======================= properties =======================
\* the (person, entry time) records of a space; none for a key the map lacks
Records(occupants, key) == IF key \in DOMAIN occupants THEN occupants[key] ELSE <<>>

\* the positions of person's records in a Vec
EntriesOf(vec, person) == {i \in 1..Len(vec) : vec[i][1] = person}

\* the entry time of person's latest record (its only one, when callers keep
\* to one record per person and space)
EntryTime(vec, person) ==
    vec[CHOOSE i \in EntriesOf(vec, person) : \A j \in EntriesOf(vec, person) : j <= i][2]

LeftSpace(e) == e.call = "person_leaves_space"

\* C1: a successful person_leaves_space(now, p, s) returns one (q, d) per
\* record left in s, in the record's order, with d = now - max(entry time of
\* q, entry time of p); the list is empty when nobody else is recorded.
C1_OverlapPerRemainingOccupant ==
    [][(LeftSpace(ev') /\ others' # None) =>
         LET p == ev'.person
             before == Records(test_space, ev'.space)
             after == Records(test_space', ev'.space)
             ret == others'[1]
         IN  /\ EntriesOf(before, p) # {}
             /\ EntriesOf(after, p) = {}
             /\ Len(ret) = Len(after)
             /\ \A i \in 1..Len(after) :
                  /\ ret[i][1] = after[i][1]
                  /\ ret[i][2] = now' - Max(after[i][2], EntryTime(before, p))
             /\ (Len(before) = 1 => ret = <<>>)]_vars

\* C1 witness: a leave returned two overlaps, one counted from the leaving
\* person's entry (the occupant was there first) and one from the occupant's own
C1_Witness ==
    /\ LeftSpace(ev)
    /\ others # None
    /\ LET after == Records(test_space, ev.space)
           ret == others[1]
       IN  \E i, j \in 1..Len(ret) :
             /\ ret[i][2] < now - after[i][2]
             /\ ret[j][2] = now - after[j][2]
             /\ ret[i][2] # ret[j][2]

\* C2: person_leaves_space for a person with no record in the space returns
\* None, and the records of every space, that one included, stay as they were.
C2_AbsentLeaveChangesNothing ==
    [][(LeftSpace(ev') /\ EntriesOf(Records(test_space, ev'.space), ev'.person) = {}) =>
         /\ others' = None
         /\ \A k \in Spaces : Records(test_space', k) = Records(test_space, k)]_vars

\* C2 witness: an absent person's leave returned None from a space that has
\* occupants, while another space has occupants too
C2_Witness ==
    /\ LeftSpace(ev)
    /\ others = None
    /\ Records(test_space, ev.space) # <<>>
    /\ \E k \in Spaces \ {ev.space} : Records(test_space, k) # <<>>

\* a step that is a call of the named entry point
CallStep(call) == ncalls' = ncalls + 1 /\ ev'.call = call

\* a handle_event step whose ledger leave succeeded, so that transmission ran
\* with the list now in others
Transmitted ==
    /\ CallStep("handle_event")
    /\ initialized
    /\ others' # None
    /\ \/ ev'.kind = "PersonLeavesBuilding"
       \/ ev'.kind = "RidingBus"
       \/ ev'.kind = "Walking" /\ ev'.person \in DOMAIN person_to_bus

\* a handle_event step for a leave-type event whose person has no record in the space
AnomalousLeave ==
    /\ CallStep("handle_event")
    /\ initialized
    /\ \/ /\ ev'.kind = "PersonLeavesBuilding"
          /\ EntriesOf(Records(bldgs, ev'.space), ev'.person) = {}
       \/ /\ ev'.kind = "RidingBus"
          /\ EntriesOf(Records(bus_stops, ev'.space), ev'.person) = {}

\* C3: after initialization a leave-type event (building-leave, riding-bus) for
\* a person with no record in the space is dropped: handle_event returns
\* normally, infected and hospitalized are unchanged, and the run goes on.
C3_AnomalyIsDropped ==
    [][AnomalousLeave =>
         /\ panic' = "none"
         /\ infected' = infected
         /\ hospitalized' = hospitalized]_vars

\* C4: transmission changes the infected set, schedules or draws only for a
\* pair of which exactly one member is infected when the pair is examined and
\* whose overlap is strictly more than one hour.
C4_OnlyMixedLongPairs ==
    [][Transmitted =>
         LET p == ev'.person
             list == others'[1]
             Long(i) == list[i][2] > Hours(1)
             Mixed(i) == (p \in infected) # (list[i][1] \in infected)
         IN  /\ (\A i \in 1..Len(list) : ~(Mixed(i) /\ Long(i))) =>
                   /\ infected' = infected
                   /\ scheduler' = scheduler
                   /\ rng' = rng
             /\ \A x \in infected' \ infected :
                  \/ /\ x = p
                     /\ \E i \in 1..Len(list) : Long(i) /\ list[i][1] \in infected
                  \/ \E i \in 1..Len(list) :
                       /\ list[i][1] = x
                       /\ Long(i)
                       /\ \/ p \in infected
                          \/ /\ p \in infected'
                             /\ \E j \in 1..(i - 1) : Long(j) /\ list[j][1] \in infected
             /\ rng' - rng <= 3 * Cardinality({i \in 1..Len(list) : Long(i)})]_vars

\* C4 witness: a building leave examined a pair of one infected and one
\* uninfected person whose overlap was exactly one hour
C4_Witness ==
    /\ ev.call = "handle_event"
    /\ ev.kind = "PersonLeavesBuilding"
    /\ others # None
    /\ \E i \in 1..Len(others[1]) :
         /\ others[1][i][2] = Hours(1)
         /\ (ev.person \in infected) # (others[1][i][1] \in infected)

\* C5: a successful transmission draw adds exactly the uninfected member of the
\* pair to infected, nobody else, keeps the infected member, and dates the
\* infection at the leave time: a hospitalization it schedules is for the new
\* case and fires 1 to 3 hours after the leave.
C5_UninfectedMemberAtLeaveTime ==
    [][Transmitted =>
         LET p == ev'.person
             list == others'[1]
             added == SubSeq(scheduler', Len(scheduler) + 1, Len(scheduler'))
         IN  /\ infected \subseteq infected'
             /\ infected' \ infected \subseteq {p} \cup {list[i][1] : i \in 1..Len(list)}
             /\ Len(list) = 1 =>
                  IF rng' - rng >= 2
                  THEN /\ (p \in infected) # (list[1][1] \in infected)
                       /\ infected' = infected \cup {p, list[1][1]}
                       /\ Cardinality(infected') = Cardinality(infected) + 1
                  ELSE infected' = infected
             /\ scheduler' = scheduler \o added
             /\ \A i \in 1..Len(added) :
                  /\ added[i][2].person \in infected' \ infected
                  /\ added[i][1] - now' \in Hours(1)..(Hours(3) - 1)]_vars

\* C5 witness: after a building leave later than the start of day, a
\* hospitalization is scheduled too late to come from the initial seeding
C5_Witness ==
    /\ ev.call = "handle_event"
    /\ ev.kind = "PersonLeavesBuilding"
    /\ others # None
    /\ \E i \in 1..Len(scheduler) :
         /\ scheduler[i][1] >= START_OF_DAY + Hours(3)
         /\ scheduler[i][1] >= now + Hours(1)
         /\ scheduler[i][2].person \in infected

\* C6: while the scheduler delivers only commands the model pushed,
\* hospitalized is a subset of infected.
C6_HospitalizedSubsetInfected == hospitalized \subseteq infected

\* C6 witness: somebody is hospitalized
C6_Witness == hospitalized # {}

\* C7: no step removes a person from infected or from hospitalized.
C7_Monotonic ==
    [][infected \subseteq infected' /\ hospitalized \subseteq hospitalized']_vars

\* C7 witness: with somebody infected and hospitalized, a leave event ran transmission
C7_Witness ==
    /\ hospitalized # {}
    /\ infected # {}
    /\ ev.call = "handle_event"
    /\ ev.kind = "PersonLeavesBuilding"
    /\ others # None

\* C8: every BecomeHospitalized(p) pushed is for a person who became infected
\* in that call and fires at t with now + 1 hour <= t < now + 3 hours, now
\* being START_OF_DAY in initialize and the event's time otherwise.
C8_FireTimeWindow ==
    [][(ncalls' = ncalls + 1) =>
         LET added == SubSeq(scheduler', Len(scheduler) + 1, Len(scheduler'))
             base == IF ev'.call = "initialize" THEN START_OF_DAY ELSE now'
         IN  /\ scheduler' = scheduler \o added
             /\ \A i \in 1..Len(added) :
                  /\ added[i][2] = BecomeHospitalized(added[i][2].person)
                  /\ added[i][2].person \in infected' \ infected
                  /\ base + Hours(1) <= added[i][1]
                  /\ added[i][1] < base + Hours(3)]_vars

\* C8 witness: commands are pending at both ends of the window, one seeded at
\* the start of day and one pushed by a later transmission
C8_Witness ==
    /\ now > START_OF_DAY
    /\ \E i, j \in 1..Len(scheduler) :
         /\ scheduler[i][1] = START_OF_DAY + Hours(3) - 1
         /\ scheduler[j][1] = now + Hours(1)
         /\ scheduler[j][1] >= START_OF_DAY + Hours(3)

\* C9: on an initialized model handle_cmd(BecomeHospitalized(p)) adds p to
\* hospitalized whether or not p is infected, and leaves infected, the three
\* ledgers, the ride map, the random source and the scheduler unchanged.
C9_HandleCmdFrame ==
    [][(CallStep("handle_cmd") /\ initialized) =>
         /\ hospitalized' = hospitalized \cup {inflight[1][2].person}
         /\ panic' = "none"
         /\ UNCHANGED <<infected, bldgs, bus_stops, buses, person_to_bus, rng,
                        scheduler>>]_vars

\* C9 witness: handle_cmd hospitalized a person who is not infected
C9_Witness ==
    /\ ev.call = "handle_cmd"
    /\ panic = "none"
    /\ ev.person \in hospitalized \ infected

\* C10: handle_event or handle_cmd before initialize, and a second initialize,
\* abort the run with nothing processed; nothing runs after an abort; and
\* rand_duration never fails its assertion on the range.
C10_PreconditionsAbort ==
    [][/\ (~initialized /\ (CallStep("handle_event") \/ CallStep("handle_cmd"))) =>
            /\ panic' = ev'.call \o ": assert"
            /\ UNCHANGED <<infected, hospitalized, bldgs, bus_stops, buses,
                           person_to_bus, rng, scheduler, initialized>>
       /\ (initialized /\ CallStep("initialize")) =>
            /\ panic' = "initialize: assert"
            /\ UNCHANGED <<infected, hospitalized, bldgs, bus_stops, buses,
                           person_to_bus, rng, scheduler, initialized>>
       /\ panic # "none" => UNCHANGED vars
       /\ panic' # "rand_duration: assert"]_vars

\* C10 witness: a second initialize aborted a run that had seeded infections
\* and scheduled a hospitalization through rand_duration
C10_Witness ==
    /\ panic = "initialize: assert"
    /\ infected # {}
    /\ scheduler # <<>>

\* the outcomes of a call are a function of the values the rng produced in it
Functional(outcomes) ==
    \A a, b \in outcomes : a.draws = b.draws => a = b

C12_LeaveRemovesEveryEntry ==
    [][LeftSpace(ev') =>
         LET p == ev'.person
             s == ev'.space
         IN  /\ others' # None =>
                  /\ EntriesOf(Records(test_space', s), p) = {}
                  /\ \A t \in now'..MaxTime :
                       LET again == PersonLeavesSpace(test_space', t, p, s)
                       IN  again.ret = None /\ again.occupants = test_space'
             /\ (LeftSpace(ev) /\ others # None /\ ev.person = p /\ ev.space = s) =>
                  /\ others' = None
                  /\ test_space' = test_space
             /\ panic' = "none"]_vars

\* C12 witness: a person recorded twice in a space has left it with one
\* successful leave, and somebody else stays behind
C12_Witness ==
    /\ LeftSpace(ev)
    /\ others # None
    /\ ev.had >= 2
    /\ Len(others[1]) >= 1
    /\ EntriesOf(Records(test_space, ev.space), ev.person) = {}

\* C13: two persons recorded in a space at t1 <= t2, nobody else: whichever of
\* them leaves first, at t3 >= t2, is returned exactly one overlap, with the
\* other person, of t3 - t2.
C13_PairOverlap ==
    [][LeftSpace(ev') =>
         LET s == ev'.space
             before == Records(test_space, s)
         IN  (Len(before) = 2 /\ before[1][1] # before[2][1]) =>
               LET t2 == before[2][2]
                   first == PersonLeavesSpace(test_space, now', before[1][1], s).ret
                   second == PersonLeavesSpace(test_space, now', before[2][1], s).ret
               IN  /\ before[1][2] <= t2 /\ t2 <= now'
                   /\ first = Some(<< <<before[2][1], now' - t2>> >>)
                   /\ second = Some(<< <<before[1][1], now' - t2>> >>)
                   /\ ev'.person \in {before[1][1], before[2][1]} =>
                        /\ others' # None
                        /\ Len(others'[1]) = 1
                        /\ others'[1][1][2] = now' - t2]_vars

\* C13 witness: of two persons recorded at different times the earlier one has
\* left, after the later one's arrival, with an overlap shorter than its stay
C13_Witness ==
    /\ LeftSpace(ev)
    /\ others # None
    /\ ev.had = 1
    /\ LET after == Records(test_space, ev.space)
       IN  /\ Len(after) = 1
           /\ Len(others[1]) = 1
           /\ after[1][2] > 0
           /\ others[1][1][2] > 0
           /\ others[1][1][2] = now - after[1][2]

\* C14: with call times that never decrease, no overlap returned by
\* person_leaves_space is negative.
C14_OverlapsNonNegative ==
    others # None => \A i \in 1..Len(others[1]) : others[1][i][2] >= 0

\* C14 witness: a leave returned a zero overlap, with somebody who arrived at
\* the time of the leave, and a positive one
C14_Witness ==
    /\ LeftSpace(ev)
    /\ others # None
    /\ \E i, j \in 1..Len(others[1]) : others[1][i][2] = 0 /\ others[1][j][2] > 0

\* C20: a successful person_leaves_space(now, p, s) removes the records of p
\* from s and nothing else: the other records of s keep their person, entry
\* time and relative order, and the records of every other space are unchanged.
C20_LeaveFrame ==
    [][(LeftSpace(ev') /\ others' # None) =>
         LET p == ev'.person
             s == ev'.space
             before == Records(test_space, s)
             after == Records(test_space', s)
             gone == EntriesOf(before, p)
         IN  /\ DOMAIN test_space' = DOMAIN test_space
             /\ Len(after) = Len(before) - Cardinality(gone)
             /\ \A i \in (1..Len(before)) \ gone :
                  after[i - Cardinality({j \in gone : j < i})] = before[i]
             /\ \A k \in Spaces \ {s} : Records(test_space', k) = Records(test_space, k)]_vars

\* C20 witness: the leave of a person left two other persons' records behind,
\* with different entry times
C20_Witness ==
    /\ LeftSpace(ev)
    /\ others # None
    /\ LET after == Records(test_space, ev.space)
       IN  /\ Len(after) >= 2
           /\ after[1][1] # after[2][1]
           /\ after[1][2] < after[2][2]

\* a handle_event step for the named kind of event that got past the assert
EventStep(kind) == CallStep("handle_event") /\ initialized /\ ev'.kind = kind

\* C15: the ride map holds p from a processed riding-bus event for p (with
\* that event's vehicle) until the next walking event for p, and at no other
\* time: it starts empty, only these two events change it, and only at p.
C15_RideMapWindow ==
    /\ person_to_bus = EmptyMap
    /\ [][LET p == ev'.person
          IN  IF EventStep("RidingBus") /\ panic' = "none"
              THEN /\ DOMAIN person_to_bus' = DOMAIN person_to_bus \cup {p}
                   /\ person_to_bus'[p] = ev'.car
                   /\ \A q \in DOMAIN person_to_bus \ {p} :
                        person_to_bus'[q] = person_to_bus[q]
              ELSE IF EventStep("Walking")
              THEN /\ DOMAIN person_to_bus' = DOMAIN person_to_bus \ {p}
                   /\ \A q \in DOMAIN person_to_bus' : person_to_bus'[q] = person_to_bus[q]
              ELSE person_to_bus' = person_to_bus]_vars

\* C15 witness: a walking event has taken out of the ride map the person that
\* a riding-bus event had put in
C15_Witness ==
    /\ ev.call = "handle_event"
    /\ ev.kind = "Walking"
    /\ ev.car \in Cars
    /\ ev.person \notin DOMAIN person_to_bus
    /\ panic = "none"

\* C16: a riding-bus event for p, recorded at the stop, is a leave of the stop
\* followed by an entry into the vehicle: p has no record left at the stop,
\* transmission has run for p at the event's time against the overlaps with
\* the stop's remaining occupants, and the vehicle has a new last record
\* (p, now); nothing else changes.
C16_RideIsLeaveThenEnter ==
    [][(EventStep("RidingBus") /\ EntriesOf(Records(bus_stops, ev'.space), ev'.person) # {}) =>
         LET p == ev'.person
             before == Records(bus_stops, ev'.space)
             after == Records(bus_stops', ev'.space)
         IN  /\ panic' = "none"
             /\ EntriesOf(after, p) = {}
             /\ \A k \in BusStops \ {ev'.space} :
                  Records(bus_stops', k) = Records(bus_stops, k)
             /\ others' # None
             /\ Len(others'[1]) = Len(after)
             /\ \A i \in 1..Len(after) :
                  others'[1][i] = <<after[i][1], now' - Max(after[i][2], EntryTime(before, p))>>
             /\ \E st \in Transmission(Self, now', p, others'[1]) :
                  /\ infected' = st.infected
                  /\ rng' = st.rng
                  /\ scheduler' = st.scheduler
             /\ Records(buses', ev'.car) = Append(Records(buses, ev'.car), <<p, now'>>)
             /\ \A c \in Cars \ {ev'.car} : Records(buses', c) = Records(buses, c)
             /\ person_to_bus'[p] = ev'.car
             /\ UNCHANGED <<bldgs, hospitalized>>]_vars

\* C16 witness: a person has boarded after more than an hour at the stop with
\* somebody who stays there, an infection has passed between the two, and its
\* hospitalization is scheduled from the time of the event
C16_Witness ==
    /\ ev.call = "handle_event"
    /\ ev.kind = "RidingBus"
    /\ panic = "none"
    /\ others # None
    /\ \E i \in 1..Len(others[1]) : others[1][i][2] > Hours(1)
    /\ \E i \in 1..Len(scheduler) : scheduler[i][1] >= now + Hours(1) /\ now > START_OF_DAY
    /\ EntriesOf(Records(buses, ev.car), ev.person) # {}

\* C18: in the batch of one leave event the pairs are examined in the order of
\* the returned list, and an infection counts from the next pair on. With the
\* other occupants distinct: an infected leaver draws for every long pair with
\* an uninfected occupant; an uninfected leaver draws for the long pairs with
\* infected occupants up to the pair k that infects it, from then on for the
\* long pairs with uninfected occupants and no more for infected ones, and
\* only occupants after k can be infected in the batch; each new infection
\* draws once more and is pushed at most once.
C18_BatchInOrder ==
    [][Transmitted =>
         LET p == ev'.person
             L == others'[1]
             Long == {i \in 1..Len(L) : L[i][2] > Hours(1)}
             I == {i \in Long : L[i][1] \in infected}
             U == {i \in Long : L[i][1] \notin infected}
             new == infected' \ infected
             pushes == SubSeq(scheduler', Len(scheduler) + 1, Len(scheduler'))
             drawn == rng' - rng
             extra == Cardinality(new) + Len(pushes)
         IN  (\A i, j \in 1..Len(L) : L[i][1] = L[j][1] => i = j) =>
               /\ infected \subseteq infected'
               /\ SubSeq(scheduler', 1, Len(scheduler)) = scheduler
               /\ \A i, j \in 1..Len(pushes) : pushes[i][2] = pushes[j][2] => i = j
               /\ \A i \in 1..Len(pushes) : pushes[i][2].person \in new
               /\ IF p \in infected
                  THEN /\ new \subseteq {L[i][1] : i \in U}
                       /\ drawn = Cardinality(U) + extra
                  ELSE IF p \notin infected'
                  THEN new = {} /\ drawn = Cardinality(I)
                  ELSE \E k \in I :
                         /\ new \ {p} \subseteq {L[i][1] : i \in {u \in U : u > k}}
                         /\ drawn = Cardinality({i \in I : i <= k})
                                    + Cardinality({u \in U : u > k}) + extra]_vars

\* C18 witness: the leaving person, infected by the first occupant of the
\* list, has infected the second one in the same batch; both hospitalizations
\* are scheduled from the time of the event
C18_Witness ==
    /\ ev.call = "handle_event"
    /\ ev.kind = "PersonLeavesBuilding"
    /\ others # None
    /\ Len(others[1]) = 2
    /\ others[1][1][1] # others[1][2][1]
    /\ {others[1][1][1], others[1][2][1], ev.person} \subseteq infected
    /\ \E i, j \in 1..Len(scheduler) :
         /\ scheduler[i] = <<scheduler[i][1], BecomeHospitalized(ev.person)>>
         /\ scheduler[j] = <<scheduler[j][1], BecomeHospitalized(others[1][2][1])>>
         /\ scheduler[i][1] >= now + Hours(1)
         /\ scheduler[j][1] >= now + Hours(1)
         /\ now > START_OF_DAY + Hours(1)
         /\ i < j
    /\ \A i \in 1..Len(scheduler) : scheduler[i][2] # BecomeHospitalized(others[1][1][1])

\* the vehicles in which person has a record
RecordedIn(ledger, person) ==
    {c \in DOMAIN ledger : EntriesOf(ledger[c], person) # {}}

\* C19: after a walking event for p has been processed, p has no record in
\* any vehicle, whatever waiting-for-bus, riding-bus and walking events came
\* before.
C19_WalkingClearsAllVehicles ==
    [][EventStep("Walking") => RecordedIn(buses', ev'.person) = {}]_vars

\* what the Walking arm does: it takes the records of p out of the vehicle the
\* ride map held for p, the vehicle of p's latest riding-bus event, and out of
\* no other; a record that an earlier riding-bus event left in another vehicle
\* stays.
WalkingLeavesRiddenVehicle ==
    [][EventStep("Walking") =>
         LET p == ev'.person
         IN  /\ ev'.car = (IF p \in DOMAIN person_to_bus THEN person_to_bus[p] ELSE 0)
             /\ RecordedIn(buses', p) = RecordedIn(buses, p) \ {ev'.car}
             /\ \A c \in DOMAIN buses' \ {ev'.car} : Records(buses', c) = Records(buses, c)
             /\ (RecordedIn(buses, p) \subseteq {ev'.car} => RecordedIn(buses', p) = {})]_vars

\* C19 witness: a walking event has ended the ride of a person who is now in no
\* vehicle, while somebody else rides on in the vehicle it left
C19_Witness ==
    /\ ev.call = "handle_event"
    /\ ev.kind = "Walking"
    /\ panic = "none"
    /\ ev.car \in DOMAIN buses
    /\ RecordedIn(buses, ev.person) = {}
    /\ \E q \in DOMAIN person_to_bus :
         person_to_bus[q] = ev.car /\ ev.car \in RecordedIn(buses, q)

\* the pushed commands for person that wait in the Scheduler
PendingFor(person) ==
    {i \in 1..Len(scheduler) : scheduler[i][2] = BecomeHospitalized(person)}

\* the BecomeHospitalized(person) commands waiting, in flight and handled
Deliveries(person) ==
    Cardinality(PendingFor(person))
    + (IF inflight # None /\ inflight[1][2] = BecomeHospitalized(person) THEN 1 ELSE 0)
    + (IF person \in hospitalized THEN 1 ELSE 0)

\* a pushed command for person is waiting and the run reaches its fire time
Due(person) == \E i \in PendingFor(person) : scheduler[i][1] <= MaxTime

\* C17: a pushed BecomeHospitalized(p) is delivered to handle_cmd at most once
\* (there is never more than one of it waiting, in flight or handled), never
\* before its fire time, and handle_cmd is called with it; and if the
\* simulation keeps running past the fire time, without aborting, p is
\* eventually in hospitalized.
C17_DeliveredOnceAndEventually ==
    /\ [](\A p \in Persons : Deliveries(p) <= 1)
    /\ [][/\ (inflight = None /\ inflight' # None) =>
               \E i \in 1..Len(scheduler) :
                 /\ scheduler[i][2] = inflight'[1][2]
                 /\ scheduler[i][1] <= inflight'[1][1]
                 /\ scheduler' = RemoveAt(scheduler, i)
                 /\ now' = inflight'[1][1]
          /\ (CallStep("handle_cmd") /\ initialized) =>
               /\ inflight # None
               /\ inflight[1][2] = BecomeHospitalized(ev'.person)]_vars
    /\ \A p \in Persons : Due(p) ~> (p \in hospitalized \/ panic # "none")

\* C17 witness: a command pushed with a fire time after the start of the day
\* has been delivered and handled, while another one is still waiting
C17_Witness ==
    /\ ev.call = "handle_cmd"
    /\ ev.person \in hospitalized
    /\ now > START_OF_DAY
    /\ inflight = None
    /\ scheduler # <<>>
    /\ panic = "none"

\* a handle_event step for an event that no arm of the match acts on
Unsubscribed ==
    /\ CallStep("handle_event")
    /\ \/ ev'.kind = "OtherTripPhase"
       \/ ev'.kind = "OtherEvent"
       \/ ev'.kind = "Walking" /\ ev'.person \notin DOMAIN person_to_bus

\* C21: a trip-phase event of a phase other than waiting-for-bus, riding-bus
\* and walking, an event of any other kind, and a walking event for a person
\* with no ride-map entry change neither the ledgers, infected, hospitalized,
\* the ride map, the random source nor the scheduler; once the model is
\* initialized they return normally.
C21_UnsubscribedEventsFrame ==
    [][Unsubscribed =>
         /\ UNCHANGED <<bldgs, bus_stops, buses, infected, hospitalized, person_to_bus,
                        rng, scheduler, inflight, initialized>>
         /\ initialized => panic' = "none"]_vars

\* C21 witness: the start of another trip phase has been processed for a
\* person who is riding a vehicle, and the person rides on
C21_Witness ==
    /\ ev.call = "handle_event"
    /\ ev.kind = "OtherTripPhase"
    /\ panic = "none"
    /\ ev.person \in DOMAIN person_to_bus
    /\ EntriesOf(Records(buses, person_to_bus[ev.person]), ev.person) # {}

\* C22: whenever person_to_bus maps p to vehicle c, p has a record in c; so
\* the unwrap of the vehicle leave in the Walking arm never fails.
C22_RidersAreRecorded ==
    /\ \A p \in DOMAIN person_to_bus : person_to_bus[p] \in RecordedIn(buses, p)
    /\ panic # "Walking: unwrap"

\* C22 witness: a walking event has taken a person out of its vehicle, the
\* unwrap passed, and somebody else is riding another vehicle
C22_Witness ==
    /\ ev.call = "handle_event"
    /\ ev.kind = "Walking"
    /\ ev.car \in RideCars
    /\ panic = "none"
    /\ \E q \in DOMAIN person_to_bus :
         /\ person_to_bus[q] # ev.car
         /\ person_to_bus[q] \in RecordedIn(buses, q)

\* the commands a step has pushed: what it appended to the Scheduler's queue
Pushed ==
    IF inflight' = inflight /\ Len(scheduler') >= Len(scheduler)
    THEN SubSeq(scheduler', Len(scheduler) + 1, Len(scheduler'))
    ELSE <<>>

\* C23: become_infected is invoked only for a person not yet infected: no
\* person leaves infected, a step pushes BecomeHospitalized only for persons
\* it has newly infected, once each, and initialize draws once per member of
\* the population, once more per person it infects and once more per push; so
\* over a run there is at most one BecomeHospitalized per person, waiting, in
\* flight or handled.
C23_InfectedOnce ==
    /\ [](\A p \in Persons : Deliveries(p) <= 1)
    /\ [][/\ infected \subseteq infected'
          /\ inflight' = inflight => SubSeq(scheduler', 1, Len(scheduler)) = scheduler
          /\ \A i \in 1..Len(Pushed) :
               /\ Pushed[i][2].person \in infected' \ infected
               /\ \A j \in 1..Len(Pushed) : Pushed[i][2] = Pushed[j][2] => i = j
          /\ (CallStep("initialize") /\ panic' = "none") =>
               \E population \in Populations :
                 /\ infected' \subseteq {population[i] : i \in 1..Len(population)}
                 /\ rng' - rng = Len(population) + Cardinality(infected' \ infected)
                                 + Len(Pushed)]_vars

\* C23 witness: a person infected at the start of the day has infected another
\* one in a building; each of the two has its one command waiting
C23_Witness ==
    /\ ev.call = "handle_event"
    /\ ev.kind = "PersonLeavesBuilding"
    /\ panic = "none"
    /\ Len(scheduler) = 2
    /\ scheduler[1][1] < START_OF_DAY + Hours(3)
    /\ scheduler[2][1] >= now + Hours(1)
    /\ now > START_OF_DAY + Hours(1)
    /\ scheduler[1][2] # scheduler[2][2]
    /\ {scheduler[1][2].person, scheduler[2][2].person} \subseteq infected
    /\ \A p \in Persons : Deliveries(p) <= 1
====
